---- MODULE Spec2Model ----
(***************************************************************************)
(* Model of src/src/metascraper-ldjson.ts: the JSON-LD author rule of      *)
(* metascraper.  The module models JavaScript values as tagged records,    *)
(* strings as sequences of one-character strings, a thrown exception as    *)
(* the value Fault, and the three functions of the file:                   *)
(*   extractAuthorName, isAuthorContentType and the author rule returned   *)
(*   by metascraperAuthorJsonLd (stepped node by node).                    *)
(***************************************************************************)
EXTENDS Integers, Sequences

VARIABLES op, arg, pc, jsonldArray, i, authorData, extractedAuthor, ret, exit

vars == <<op, arg, pc, jsonldArray, i, authorData, extractedAuthor, ret, exit>>

(***************************************************************************)
(* Bounds of the explored inputs.                                          *)
(***************************************************************************)
MaxNodes == 2
MaxAuthors == 2
MaxTypes == 2

(***************************************************************************)
(* JavaScript values.  Each kind has its own record field, so two values   *)
(* of different kinds are different records.                               *)
(***************************************************************************)
Undef == [undef |-> TRUE]
Null == [null |-> TRUE]
Fault == [fault |-> TRUE]
Unset == [unset |-> TRUE]
Str(s) == [str |-> s]
Num(n) == [num |-> n]
Bool(b) == [bool |-> b]
Arr(xs) == [arr |-> xs]

IsUndef(v) == "undef" \in DOMAIN v
IsNull(v) == "null" \in DOMAIN v
IsFault(v) == "fault" \in DOMAIN v
IsStr(v) == "str" \in DOMAIN v
IsNum(v) == "num" \in DOMAIN v
IsBool(v) == "bool" \in DOMAIN v
IsArr(v) == "arr" \in DOMAIN v
IsObj(v) == "obj" \in DOMAIN v

\* An object: the fields the program reads; a missing field is Undef.
Obj(t, au, cr, co, n, g, f, a, id) ==
    [obj |-> [type |-> t, author |-> au, creator |-> cr, contributor |-> co,
              name |-> n, givenName |-> g, familyName |-> f,
              alternateName |-> a, id |-> id]]

JsonLdAuthor(n, g, f, a, id) == Obj(Undef, Undef, Undef, Undef, n, g, f, a, id)

JsonLdContent(t, au, cr, co) == Obj(t, au, cr, co, Undef, Undef, Undef, Undef, Undef)

EmptyObj == JsonLdAuthor(Undef, Undef, Undef, Undef, Undef)

\* JavaScript truthiness (the tests `!x`, `x &&`, `x ||`, filter(Boolean)).
Truthy(v) ==
    IF IsStr(v) THEN v.str # <<>>
    ELSE IF IsNum(v) THEN v.num # 0
    ELSE IF IsBool(v) THEN v.bool
    ELSE IsArr(v) \/ IsObj(v)

(***************************************************************************)
(* Strings.                                                                *)
(***************************************************************************)
RECURSIVE TrimStart(_)
TrimStart(s) == IF s # <<>> /\ Head(s) = " " THEN TrimStart(Tail(s)) ELSE s

RECURSIVE TrimEnd(_)
TrimEnd(s) ==
    IF s # <<>> /\ s[Len(s)] = " " THEN TrimEnd(SubSeq(s, 1, Len(s) - 1)) ELSE s

\* String.prototype.trim
Trim(s) == TrimEnd(TrimStart(s))

\* String.prototype.endsWith
EndsWith(s, suffix) ==
    /\ Len(suffix) <= Len(s)
    /\ SubSeq(s, Len(s) - Len(suffix) + 1, Len(s)) = suffix

\* String.prototype.includes
Includes(s, sub) ==
    \E k \in 0..(Len(s) - Len(sub)) : SubSeq(s, k + 1, k + Len(sub)) = sub

\* Array.prototype.join on a sequence of strings
RECURSIVE Join(_, _)
Join(strs, sep) ==
    IF strs = <<>> THEN <<>>
    ELSE IF Len(strs) = 1 THEN strs[1]
    ELSE strs[1] \o sep \o Join(Tail(strs), sep)

Digit(d) == <<"0", "1", "2", "3", "4", "5", "6", "7", "8", "9">>[d + 1]

RECURSIVE Decimal(_)
Decimal(n) == IF n < 10 THEN <<Digit(n)>> ELSE Decimal(n \div 10) \o <<Digit(n % 10)>>

\* The string conversion a template literal applies to an interpolated value.
RECURSIVE TemplateString(_)
TemplateString(v) ==
    IF IsStr(v) THEN v.str
    ELSE IF IsNum(v) THEN Decimal(v.num)
    ELSE IF IsBool(v) THEN (IF v.bool THEN <<"t","r","u","e">> ELSE <<"f","a","l","s","e">>)
    ELSE IF IsArr(v) THEN
        Join([k \in 1..Len(v.arr) |->
                 IF IsNull(v.arr[k]) \/ IsUndef(v.arr[k]) THEN <<>>
                 ELSE TemplateString(v.arr[k])], <<",">>)
    ELSE IF IsObj(v) THEN <<"[","o","b","j","e","c","t"," ","O","b","j","e","c","t","]">>
    ELSE IF IsNull(v) THEN <<"n","u","l","l">>
    ELSE <<"u","n","d","e","f","i","n","e","d">>

(***************************************************************************)
(* extractAuthorName                                                       *)
(***************************************************************************)
\* x.trim() on a truthy value x: only a string has the method.
TrimOf(x) == IF IsStr(x) THEN Str(Trim(x.str)) ELSE Fault

\* ObjectName with alternateName tried before givenName + familyName.
ObjectNameAlternateFirst(o) ==
    IF Truthy(o.name) THEN TrimOf(o.name)
    ELSE IF Truthy(o.alternateName) THEN TrimOf(o.alternateName)
    ELSE IF Truthy(o.givenName) /\ Truthy(o.familyName)
        THEN Str(Trim(TemplateString(o.givenName) \o <<" ">> \o TemplateString(o.familyName)))
    ELSE Null

\* The object branch: name, then givenName + familyName, then alternateName.
ObjectName(o) ==
    IF Truthy(o.name) THEN TrimOf(o.name)
    ELSE IF Truthy(o.givenName) /\ Truthy(o.familyName)
        THEN Str(Trim(TemplateString(o.givenName) \o <<" ">> \o TemplateString(o.familyName)))
    ELSE IF Truthy(o.alternateName) THEN TrimOf(o.alternateName)
    ELSE Null

\* JoinAuthors whose filter drops null only, not the empty string.
JoinAuthorsKeepEmpty(results) ==
    IF \E k \in 1..Len(results) : IsFault(results[k]) THEN Fault
    ELSE LET authors == SelectSeq(results, IsStr)
         IN  IF Len(authors) > 0
             THEN Str(Join([k \in 1..Len(authors) |-> authors[k].str], <<",", " ">>))
             ELSE Null

\* The array branch, given the results of the elements in order.
JoinAuthors(results) ==
    IF \E k \in 1..Len(results) : IsFault(results[k]) THEN Fault
    ELSE LET authors == SelectSeq(results, Truthy)
         IN  IF Len(authors) > 0
             THEN Str(Join([k \in 1..Len(authors) |-> authors[k].str], <<",", " ">>))
             ELSE Null

RECURSIVE extractAuthorName(_)
extractAuthorName(authorData_) ==
    IF ~Truthy(authorData_) THEN Null
    ELSE IF IsStr(authorData_) THEN Str(Trim(authorData_.str))
    ELSE IF IsArr(authorData_) THEN
        JoinAuthors([k \in 1..Len(authorData_.arr) |-> extractAuthorName(authorData_.arr[k])])
    ELSE IF IsObj(authorData_) THEN ObjectName(authorData_.obj)
    ELSE Null

(***************************************************************************)
(* isAuthorContentType                                                     *)
(***************************************************************************)
AUTHOR_CONTENT_TYPES ==
    << <<"A","r","t","i","c","l","e">>,
       <<"N","e","w","s","A","r","t","i","c","l","e">>,
       <<"B","l","o","g","P","o","s","t","i","n","g">>,
       <<"S","c","h","o","l","a","r","l","y","A","r","t","i","c","l","e">>,
       <<"T","e","c","h","A","r","t","i","c","l","e">>,
       <<"R","e","p","o","r","t">>,
       <<"B","o","o","k">>,
       <<"R","e","v","i","e","w">>,
       <<"C","r","e","a","t","i","v","e","W","o","r","k">>,
       <<"W","e","b","P","a","g","e">>,
       <<"V","i","d","e","o","O","b","j","e","c","t">>,
       <<"C","o","u","r","s","e">>,
       <<"D","a","t","a","s","e","t">>,
       <<"S","o","f","t","w","a","r","e","S","o","u","r","c","e","C","o","d","e">>,
       <<"W","e","b","S","i","t","e">>,
       <<"M","e","d","i","a","O","b","j","e","c","t">> >>

\* One evaluation of the inner predicate: "T", "F" or "throw".
\*   type === contentType || type.includes(`:${contentType}`)
\*                        || type.endsWith(`/${contentType}`)
TypeMatches(type, contentType) ==
    IF IsStr(type) THEN
        IF \/ type.str = contentType
           \/ Includes(type.str, <<":">> \o contentType)
           \/ EndsWith(type.str, <<"/">> \o contentType)
        THEN "T" ELSE "F"
    ELSE IF IsArr(type) THEN
        \* Array.prototype.includes exists, endsWith does not
        IF \E k \in 1..Len(type.arr) : type.arr[k] = Str(<<":">> \o contentType)
        THEN "T" ELSE "throw"
    ELSE "throw"

\* AUTHOR_CONTENT_TYPES.some(...) from entry k on
RECURSIVE SomeContentType(_, _)
SomeContentType(type, k) ==
    IF k > Len(AUTHOR_CONTENT_TYPES) THEN "F"
    ELSE LET m == TypeMatches(type, AUTHOR_CONTENT_TYPES[k])
         IN  IF m = "F" THEN SomeContentType(type, k + 1) ELSE m

\* types.some(...) from element k on
RECURSIVE SomeType(_, _)
SomeType(types, k) ==
    IF k > Len(types) THEN "F"
    ELSE LET m == SomeContentType(types[k], 1)
         IN  IF m = "F" THEN SomeType(types, k + 1) ELSE m

isAuthorContentType(types) ==
    LET m == SomeType(types, 1)
    IN  IF m = "throw" THEN Fault ELSE Bool(m = "T")

(***************************************************************************)
(* The author rule of metascraperAuthorJsonLd                              *)
(***************************************************************************)
\* obj['@type']: reading a property of null throws, a primitive or an array
\* has no such property.
NodeType(obj) ==
    IF IsNull(obj) \/ IsUndef(obj) THEN Fault
    ELSE IF IsObj(obj) THEN obj.obj.type
    ELSE Undef

\* TypesOf without the wrapping of a scalar @type.
TypesOfNoWrap(type) == IF IsArr(type) THEN type.arr ELSE <<>>

\* Array.isArray(obj['@type']) ? obj['@type'] : [obj['@type']]
TypesOf(type) == IF IsArr(type) THEN type.arr ELSE <<type>>

\* SelectAuthorData with creator preferred to author.
SelectCreatorFirst(o) ==
    IF Truthy(o.creator) THEN o.creator
    ELSE IF Truthy(o.author) THEN o.author
    ELSE o.contributor

\* SelectAuthorData that falls back when a field normalizes to nothing.
SelectFirstUseful(o) ==
    IF Truthy(extractAuthorName(o.author)) THEN o.author
    ELSE IF Truthy(extractAuthorName(o.creator)) THEN o.creator
    ELSE o.contributor

\* obj.author || obj.creator || obj.contributor
SelectAuthorData(o) ==
    IF Truthy(o.author) THEN o.author
    ELSE IF Truthy(o.creator) THEN o.creator
    ELSE o.contributor

\* Yields as `extractedAuthor !== null`.
YieldsUnlessNull(extracted) == ~IsNull(extracted)

\* if (extractedAuthor)
Yields(extracted) == Truthy(extracted)

\* Thrown with the catch inside the loop: the node is skipped.
ThrownSkipsNode(ad) == [k |-> "continue", authorData |-> ad, extractedAuthor |-> Unset]

\* Outcomes of one iteration of the for loop.  A throw leaves the loop for
\* the catch clause, which encloses it.
Thrown(ad) == [k |-> "throw", authorData |-> ad, extractedAuthor |-> Unset]
Continue(ad, ex) == [k |-> "continue", authorData |-> ad, extractedAuthor |-> ex]
Return(ad, ex) == [k |-> "return", authorData |-> ad, extractedAuthor |-> ex]

\* The body of the for loop for one node.
LoopBody(obj) ==
    LET type == NodeType(obj)
    IN  IF IsFault(type) THEN Thrown(Unset)
        ELSE IF ~Truthy(type) THEN Continue(Unset, Unset)
        ELSE LET ok == isAuthorContentType(TypesOf(type))
             IN  IF IsFault(ok) THEN Thrown(Unset)
                 ELSE IF ~ok.bool THEN Continue(Unset, Unset)
                 ELSE LET ad == SelectAuthorData(obj.obj)
                      IN  IF ~Truthy(ad) THEN Continue(ad, Unset)
                          ELSE LET ex == extractAuthorName(ad)
                               IN  IF IsFault(ex) THEN Thrown(ad)
                                   ELSE IF Yields(ex) THEN Return(ad, ex)
                                   ELSE Continue(ad, ex)

\* Catch that lets the exception through.
CatchRethrows(outcome) == outcome

\* try { ... } catch (error) { return null; }
Catch(outcome) == IF IsFault(outcome) THEN Null ELSE outcome

(***************************************************************************)
(* Inputs.                                                                 *)
(***************************************************************************)
SeqsUpTo(S, n) == UNION {[1..m -> S] : m \in 0..n}

Article == <<"A","r","t","i","c","l","e">>
Person == <<"P","e","r","s","o","n">>

\* Type strings: prefix, name, suffix.
TypePrefixes ==
    { <<>>, <<"s","c","h","e","m","a",":">>, <<"M","y">>,
      <<"h","t","t","p","s",":","/","/","s","c","h","e","m","a",".","o","r","g","/">> }
TypeNames ==
    {AUTHOR_CONTENT_TYPES[k] : k \in 1..Len(AUTHOR_CONTENT_TYPES)}
        \cup {Person, <<"T","h","i","n","g">>}
TypeSuffixes == { <<>>, <<"D","r","a","f","t">>, <<"/","x">> }
TypeStrings == {p \o n \o s : p \in TypePrefixes, n \in TypeNames, s \in TypeSuffixes}

\* A smaller set, for the lists of several types.
FewTypeStrings ==
    { Article, Person, <<"B","o","o","k">>,
      <<"s","c","h","e","m","a",":">> \o Article,
      <<"s","c","h","e","m","a",":">> \o Article \o <<"D","r","a","f","t">>,
      <<"x","/">> \o Person, <<"x","/","B","o","o","k">> }

TypeLists ==
    {<<Str(t)>> : t \in TypeStrings}
        \cup {[k \in 1..Len(ts) |-> Str(ts[k])] : ts \in SeqsUpTo(FewTypeStrings, MaxTypes)}

\* Person/Organization objects: every combination of the name-bearing fields.
NameVals ==
    { Undef, Null, Str(<<>>), Str(<<" ">>), Str(<<"J">>), Str(<<" ","J"," ">>),
      Num(0), Num(5), Arr(<<>>), Bool(TRUE), EmptyObj }
GivenVals == { Undef, Str(<<>>), Str(<<" ">>), Str(<<"G">>), Num(5), Arr(<<>>) }
FamilyVals == { Undef, Str(<<>>), Str(<<" ">>), Str(<<"D">>), Num(0), Num(12) }
AlternateVals == { Undef, Null, Str(<<" ">>), Str(<<"K"," ">>), Num(5), EmptyObj }
IdVals == { Undef, Str(<<"#","1">>) }

Authors ==
    {JsonLdAuthor(n, g, f, a, id) :
        n \in NameVals, g \in GivenVals, f \in FamilyVals, a \in AlternateVals, id \in IdVals}

IdOnly == JsonLdAuthor(Undef, Undef, Undef, Undef, Str(<<"#","1">>))
Named(s) == JsonLdAuthor(Str(s), Undef, Undef, Undef, Undef)
NameNotString == JsonLdAuthor(Num(5), Undef, Undef, Undef, Undef)

\* Elements of author arrays, nested arrays included.
AuthorElements ==
    { Null, Str(<<>>), Str(<<" ">>), Str(<<"J">>), Str(<<" ","D"," ">>), Num(5),
      Named(<<"K">>), Named(<<" ">>), IdOnly, NameNotString,
      JsonLdAuthor(Undef, Str(<<"G">>), Str(<<"D">>), Undef, Undef),
      Arr(<<>>), Arr(<<Null, IdOnly>>), Arr(<<Str(<<"A">>), Str(<<"B">>)>>) }

AuthorArrays == {Arr(xs) : xs \in SeqsUpTo(AuthorElements, MaxAuthors)}

AuthorInputs ==
    Authors \cup AuthorArrays
        \cup { Undef, Null, Num(0), Num(5), Bool(TRUE), Bool(FALSE) }
        \cup { Str(<<>>), Str(<<" ">>), Str(<<"J">>), Str(<<" ","J"," ","D"," ">>) }

\* JSON-LD nodes.
ArticleNodes ==
    {JsonLdContent(Str(Article), au, cr, Undef) :
        au \in { Undef, Null, Str(<<>>), Str(<<" ">>), Str(<<"J">>), IdOnly,
                 NameNotString, Arr(<<IdOnly>>) },
        cr \in { Undef, Str(<<"C">>) }}
      \cup
    {JsonLdContent(Str(Article), au, cr, Str(<<"T">>)) :
        au \in { Undef, Bool(FALSE), Str(<<" ">>), Str(<<"J">>) },
        cr \in { Undef, Num(0), Str(<<"C">>) }}

TypedNodes ==
    {JsonLdContent(t, Str(<<"J">>), Undef, Undef) :
        t \in { Undef, Str(<<>>), Num(0), Num(5), Str(Person),
                Str(<<"x","/">> \o Article),
                Arr(<<>>), Arr(<<Str(Person), Str(Article)>>),
                Arr(<<Num(5), Str(Article)>>), Arr(<<Str(Article), Num(5)>>),
                Arr(<<Arr(<<Str(<<":">> \o Article)>>)>>) }}

Nodes == ArticleNodes \cup TypedNodes \cup { Null, Str(<<"J">>), Num(5), Arr(<<>>) }

\* What the JSON-LD locator $jsonld(htmlDom) produces; Fault: it throws.
Payloads ==
    { Fault, Undef, Null } \cup Nodes \cup {Arr(ns) : ns \in SeqsUpTo(Nodes, MaxNodes)}

(***************************************************************************)
(* The state machine: one call of one of the three functions.              *)
(***************************************************************************)
Init ==
    /\ \/ op = "isAuthorContentType" /\ arg \in {Arr(ts) : ts \in TypeLists}
       \/ op = "extractAuthorName" /\ arg \in AuthorInputs
       \/ op = "author" /\ arg \in Payloads
    /\ pc = "start"
    /\ jsonldArray = <<>>
    /\ i = 0
    /\ authorData = Unset
    /\ extractedAuthor = Unset
    /\ ret = Unset
    /\ exit = "none"

CallIsAuthorContentType ==
    /\ op = "isAuthorContentType" /\ pc = "start"
    /\ ret' = isAuthorContentType(arg.arr)
    /\ pc' = "done"
    /\ exit' = "return"
    /\ UNCHANGED <<op, arg, jsonldArray, i, authorData, extractedAuthor>>

CallExtractAuthorName ==
    /\ op = "extractAuthorName" /\ pc = "start"
    /\ ret' = extractAuthorName(arg)
    /\ pc' = "done"
    /\ exit' = "return"
    /\ UNCHANGED <<op, arg, jsonldArray, i, authorData, extractedAuthor>>

\* $jsonld(htmlDom), the test of its result and the normalisation to an array
RuleStart ==
    /\ op = "author" /\ pc = "start"
    /\ IF IsFault(arg)
       THEN pc' = "done" /\ ret' = Catch(Fault) /\ exit' = "catch"
            /\ UNCHANGED <<jsonldArray, i>>
       ELSE IF ~Truthy(arg)
       THEN pc' = "done" /\ ret' = Null /\ exit' = "no jsonld"
            /\ UNCHANGED <<jsonldArray, i>>
       ELSE pc' = "loop" /\ jsonldArray' = (IF IsArr(arg) THEN arg.arr ELSE <<arg>>)
            /\ i' = 1 /\ UNCHANGED <<ret, exit>>
    /\ UNCHANGED <<op, arg, authorData, extractedAuthor>>

\* one iteration of `for (const obj of jsonldArray)`
RuleNode ==
    /\ op = "author" /\ pc = "loop" /\ i <= Len(jsonldArray)
    /\ LET b == LoopBody(jsonldArray[i])
       IN  /\ authorData' = b.authorData
           /\ extractedAuthor' = b.extractedAuthor
           /\ IF b.k = "continue"
              THEN pc' = "loop" /\ i' = i + 1 /\ UNCHANGED <<ret, exit>>
              ELSE IF b.k = "return"
              THEN pc' = "done" /\ ret' = b.extractedAuthor /\ exit' = "found"
                   /\ UNCHANGED i
              ELSE pc' = "done" /\ ret' = Catch(Fault) /\ exit' = "catch"
                   /\ UNCHANGED i
    /\ UNCHANGED <<op, arg, jsonldArray>>

\* the loop is over: `return null` after it
RuleEnd ==
    /\ op = "author" /\ pc = "loop" /\ i > Len(jsonldArray)
    /\ pc' = "done" /\ ret' = Null /\ exit' = "not found"
    /\ UNCHANGED <<op, arg, jsonldArray, i, authorData, extractedAuthor>>

Next ==
    \/ CallIsAuthorContentType
    \/ CallExtractAuthorName
    \/ RuleStart
    \/ RuleNode
    \/ RuleEnd

Spec == Init /\ [][Next]_vars

(***************************************************************************)
(* Properties.                                                             *)
(***************************************************************************)
\* A string or absent: the two outcomes a caller may see.
StringOrAbsent(r) == IsStr(r) \/ IsNull(r)

\* The three match rules of the content-type filter as documented: equality,
\* or the type string ending with ':' or '/' followed by the entry.
EndsInEntry(t, e) ==
    \/ t = e
    \/ EndsWith(t, <<":">> \o e)
    \/ EndsWith(t, <<"/">> \o e)

SomeTypeEndsInEntry(types) ==
    \E k \in 1..Len(types) : \E e \in 1..Len(AUTHOR_CONTENT_TYPES) :
        EndsInEntry(types[k].str, AUTHOR_CONTENT_TYPES[e])

\* C1: isAuthorContentType(types) is true if and only if some type string
\* equals a taxonomy entry, or ends with ':' followed by it, or ends with
\* '/' followed by it; a type string that contains ':' + entry without
\* ending in the entry is rejected.
C1_MatchesOnlyAtTheEnd ==
    (op = "isAuthorContentType" /\ pc = "done")
        => ret = Bool(SomeTypeEndsInEntry(arg.arr))

\* C2: extractAuthorName never raises: for every input, non-string name
\* fields included, it returns a string or absent.
C2_ExtractNeverRaises ==
    (op = "extractAuthorName" /\ pc = "done") => StringOrAbsent(ret)

\* C3: the author rule never lets a fault escape: whatever the locator
\* produced or threw, and whatever the nodes hold, the rule returns a
\* string or absent.
C3_RuleNeverFaults ==
    (op = "author" /\ pc = "done") => StringOrAbsent(ret)

\* Reached: a null node made the loop throw, and the rule returned absent.
C3_Witness ==
    /\ op = "author" /\ pc = "done" /\ exit = "catch"
    /\ i = 2 /\ jsonldArray[2] = Null
    /\ ret = Null

\* C4: the result of the author rule is absent or a non-empty string, never
\* the empty string, even when the selected author value normalizes to the
\* empty string.
C4_NeverEmptyString ==
    (op = "author" /\ pc = "done")
        => (IsNull(ret) \/ (IsStr(ret) /\ Len(ret.str) > 0))

\* Reached: the last node's author normalized to the empty string and the
\* rule ended with absent.
C4_Witness ==
    /\ op = "author" /\ pc = "done" /\ exit = "not found"
    /\ Truthy(authorData)
    /\ extractAuthorName(authorData) = Str(<<>>)
    /\ extractedAuthor = Str(<<>>)
    /\ ret = Null

\* A name-bearing field as the data model types it: a string, or missing.
StringField(v) == IsStr(v) \/ IsUndef(v) \/ IsNull(v)

\* "present and non-empty"
NonEmpty(v) == IsStr(v) /\ Len(v.str) > 0

WellTypedAuthor(v) ==
    /\ IsObj(v)
    /\ StringField(v.obj.name) /\ StringField(v.obj.givenName)
    /\ StringField(v.obj.familyName) /\ StringField(v.obj.alternateName)

\* The documented priority: name; else givenName and familyName together;
\* else alternateName; else absent.
NameByPriority(o) ==
    CASE NonEmpty(o.name) -> Str(Trim(o.name.str))
      [] ~NonEmpty(o.name) /\ NonEmpty(o.givenName) /\ NonEmpty(o.familyName)
            -> Str(Trim(o.givenName.str \o <<" ">> \o o.familyName.str))
      [] ~NonEmpty(o.name) /\ ~(NonEmpty(o.givenName) /\ NonEmpty(o.familyName))
            /\ NonEmpty(o.alternateName)
            -> Str(Trim(o.alternateName.str))
      [] OTHER -> Null

\* C5: for an object input, extractAuthorName resolves the name in strict
\* priority order: the trimmed name; else trim(givenName + ' ' +
\* familyName) when both are non-empty; else the trimmed alternateName; else
\* absent.  An object with one of givenName/familyName only, or with @id
\* only, yields absent.
C5_NamePriority ==
    (op = "extractAuthorName" /\ pc = "done" /\ WellTypedAuthor(arg))
        => /\ ret = NameByPriority(arg.obj)
           /\ (/\ ~NonEmpty(arg.obj.name) /\ ~NonEmpty(arg.obj.alternateName)
               /\ ~(NonEmpty(arg.obj.givenName) /\ NonEmpty(arg.obj.familyName)))
                  => ret = Null

\* Reached: no name, givenName, familyName and alternateName all there, and
\* the result is "G D", not the alternateName.
C5_Witness ==
    /\ op = "extractAuthorName" /\ pc = "done" /\ WellTypedAuthor(arg)
    /\ ~NonEmpty(arg.obj.name)
    /\ NonEmpty(arg.obj.givenName) /\ NonEmpty(arg.obj.familyName)
    /\ NonEmpty(arg.obj.alternateName)
    /\ ret = Str(<<"G", " ", "D">>)

\* The results of the elements of an array, in order.
ElementResults(xs) == [k \in 1..Len(xs) |-> extractAuthorName(xs[k])]

\* The elements that survive: a result that is a non-empty string.
Survivors(results) == SelectSeq(results, NonEmpty)

\* s1, then ", " and the next one, from the last survivor backwards.
RECURSIVE CommaJoined(_)
CommaJoined(strs) ==
    IF Len(strs) = 1 THEN strs[1].str
    ELSE CommaJoined(SubSeq(strs, 1, Len(strs) - 1)) \o <<",", " ">> \o strs[Len(strs)].str

\* The string has an empty segment: it starts or ends with the separator,
\* or holds two separators in a row.
HasEmptySegment(s) ==
    \/ s = <<>>
    \/ (Len(s) >= 2 /\ SubSeq(s, 1, 2) = <<",", " ">>)
    \/ (Len(s) >= 2 /\ SubSeq(s, Len(s) - 1, Len(s)) = <<",", " ">>)
    \/ Includes(s, <<",", " ", ",", " ">>)

\* C6: for an array input, extractAuthorName applies itself to every
\* element, discards the elements whose result is absent or empty, and
\* returns the surviving strings joined with ', ' in the original order;
\* absent when none survives; never an empty string or a string with an
\* empty segment.
C6_ArrayJoin ==
    (/\ op = "extractAuthorName" /\ pc = "done" /\ IsArr(arg)
     /\ \A k \in 1..Len(arg.arr) : ~IsFault(extractAuthorName(arg.arr[k])))
        => LET kept == Survivors(ElementResults(arg.arr))
           IN  /\ (kept = <<>>) => ret = Null
               /\ (kept # <<>>) => (ret = Str(CommaJoined(kept)) /\ ~HasEmptySegment(ret.str))

\* Reached: a two-element array with a nested array whose own joined string
\* is one of the segments, after an element that was discarded.
C6_Witness ==
    /\ op = "extractAuthorName" /\ pc = "done" /\ IsArr(arg)
    /\ Len(arg.arr) >= 2
    /\ arg.arr[1] = Str(<<" ">>)
    /\ arg.arr[2] = Arr(<<Str(<<"A">>), Str(<<"B">>)>>)
    /\ ret = Str(<<"A", ",", " ", "B">>)

\* Absent in the sense of the specification: missing, null, the empty
\* string, or another falsy value.
Absent(v) ==
    \/ IsUndef(v) \/ IsNull(v)
    \/ v = Str(<<>>) \/ v = Num(0) \/ v = Bool(FALSE)

\* The first non-absent field among author, creator, contributor.
FirstNonAbsent(o) ==
    CASE ~Absent(o.author) -> o.author
      [] Absent(o.author) /\ ~Absent(o.creator) -> o.creator
      [] OTHER -> o.contributor

\* @type as a sequence: a scalar is wrapped.
Wrapped(type) == IF IsArr(type) THEN type.arr ELSE <<type>>

\* The node has an @type and the Content-Type Filter accepts it.
Accepted(n) ==
    /\ IsObj(n)
    /\ ~Absent(n.obj.type)
    /\ isAuthorContentType(Wrapped(n.obj.type)) = Bool(TRUE)

\* The node whose iteration ran last (0: none yet).
Processed ==
    IF op # "author" \/ pc = "start" \/ i = 0 THEN 0
    ELSE IF exit \in {"found", "catch"} THEN i
    ELSE i - 1

\* What the call of extractAuthorName left in extractedAuthor.
Extracted(value) ==
    IF Absent(value) \/ IsFault(extractAuthorName(value)) THEN Unset
    ELSE extractAuthorName(value)

\* C7: for each node the Content-Type Filter accepts, exactly one field
\* value is passed to extractAuthorName: author if it is non-absent, else
\* creator if it is non-absent, else contributor; the fields are never
\* merged and a lower-priority field is never used when a higher one is
\* non-absent.
C7_FieldPriority ==
    (Processed >= 1 /\ Accepted(jsonldArray[Processed]))
        => /\ authorData = FirstNonAbsent(jsonldArray[Processed].obj)
           /\ extractedAuthor = Extracted(FirstNonAbsent(jsonldArray[Processed].obj))

\* Reached: author is absent, creator and contributor both hold a name, and
\* the creator alone was passed on and returned.
C7_Witness ==
    /\ Processed >= 1 /\ Accepted(jsonldArray[Processed])
    /\ Absent(jsonldArray[Processed].obj.author)
    /\ jsonldArray[Processed].obj.creator = Str(<<"C">>)
    /\ jsonldArray[Processed].obj.contributor = Str(<<"T">>)
    /\ authorData = Str(<<"C">>)
    /\ pc = "done" /\ ret = Str(<<"C">>)

\* The payload as a sequence of nodes: a single node is a one-element one.
NodesOf(payload) == IF IsArr(payload) THEN payload.arr ELSE <<payload>>

\* The normalized author of a node.
NormalizedAuthor(n) == extractAuthorName(FirstNonAbsent(n.obj))

\* (i) the node has an @type, (ii) isAuthorContentType accepts it once
\* wrapped, (iii) its normalized author is a result.
Qualifies(n) == Accepted(n) /\ NonEmpty(NormalizedAuthor(n))

\* Processing the node raises a fault: reading @type of null, a throw in
\* isAuthorContentType, or a throw in extractAuthorName.
RaisesFault(n) ==
    \/ IsNull(n) \/ IsUndef(n)
    \/ /\ IsObj(n) /\ ~Absent(n.obj.type)
       /\ \/ IsFault(isAuthorContentType(Wrapped(n.obj.type)))
          \/ Accepted(n) /\ IsFault(NormalizedAuthor(n))

\* The first position k of nodes for which P holds, 0 if there is none.
FirstQualifying(nodes) ==
    IF \E k \in 1..Len(nodes) : Qualifies(nodes[k])
    THEN CHOOSE k \in 1..Len(nodes) :
            Qualifies(nodes[k]) /\ \A j \in 1..(k - 1) : ~Qualifies(nodes[j])
    ELSE 0

FirstDecisive(nodes) ==
    IF \E k \in 1..Len(nodes) : Qualifies(nodes[k]) \/ RaisesFault(nodes[k])
    THEN CHOOSE k \in 1..Len(nodes) :
            /\ Qualifies(nodes[k]) \/ RaisesFault(nodes[k])
            /\ \A j \in 1..(k - 1) : ~(Qualifies(nodes[j]) \/ RaisesFault(nodes[j]))
    ELSE 0

\* C8 as stated: for every payload the result is the normalized author of
\* the first node in document order that has an @type, is accepted by
\* isAuthorContentType and yields a result; it is absent exactly when no
\* node does.
C8_FirstQualifyingNodeWins ==
    (op = "author" /\ pc = "done" /\ ~IsFault(arg))
        => LET nodes == NodesOf(arg)
               k == FirstQualifying(nodes)
           IN  /\ (k = 0) <=> (ret = Null)
               /\ (k # 0) => ret = NormalizedAuthor(nodes[k])

\* C8 amended: the result is the normalized author of the first qualifying
\* node provided no node before it raises a fault; it is absent when no
\* node qualifies or when a node raises a fault before any node qualifies.
\* A node without @type never contributes.
C8_FirstQualifyingUnlessFault ==
    (op = "author" /\ pc = "done" /\ ~IsFault(arg))
        => LET nodes == NodesOf(arg)
               k == FirstDecisive(nodes)
           IN  /\ (k = 0 \/ (k # 0 /\ RaisesFault(nodes[k]))) <=> (ret = Null)
               /\ (k # 0 /\ Qualifies(nodes[k])) => ret = NormalizedAuthor(nodes[k])
               /\ \A j \in 1..Len(nodes) :
                    (IsObj(nodes[j]) /\ IsUndef(nodes[j].obj.type) /\ exit = "found")
                        => i # j

\* Reached: the first node has no @type but an author, the second is an
\* Article, and the result is the second node's author.
C8_Witness ==
    /\ op = "author" /\ pc = "done" /\ exit = "found"
    /\ Len(jsonldArray) = 2 /\ i = 2
    /\ jsonldArray[1] = JsonLdContent(Undef, Str(<<"J">>), Undef, Undef)
    /\ jsonldArray[2] = JsonLdContent(Str(Article), Undef, Str(<<"C">>), Undef)
    /\ ret = Str(<<"C">>)

\* C9: field selection is not retried.  When an accepted node's author is
\* truthy but normalizes to absent or to the empty string, the rule does
\* not fall back to the node's creator or contributor: the node
\* contributes no result and the loop moves on to the next node.
C9_NoFallback ==
    (/\ Processed >= 1 /\ Accepted(jsonldArray[Processed])
     /\ ~Absent(jsonldArray[Processed].obj.author)
     /\ extractAuthorName(jsonldArray[Processed].obj.author) \in {Null, Str(<<>>)})
        => /\ authorData = jsonldArray[Processed].obj.author
           /\ exit \notin {"found", "catch"}
           /\ i = Processed + 1
           /\ (pc = "done" /\ Processed = Len(jsonldArray)) => ret = Null

\* Reached: the only node's author is an @id reference, its creator is a
\* name, and the rule returned absent.
C9_Witness ==
    /\ op = "author" /\ pc = "done" /\ exit = "not found"
    /\ Len(jsonldArray) = 1
    /\ Accepted(jsonldArray[1])
    /\ jsonldArray[1].obj.author = IdOnly
    /\ jsonldArray[1].obj.creator = Str(<<"C">>)
    /\ ret = Null

\* The faults as C10 lists them: a null or non-object node, a non-string
\* element in an @type list, a non-string name in the selected author value
\* of an accepted node.
ListedFault(n) ==
    \/ ~IsObj(n)
    \/ /\ IsObj(n) /\ IsArr(n.obj.type)
       /\ \E k \in 1..Len(n.obj.type.arr) : ~IsStr(n.obj.type.arr[k])
    \/ /\ Accepted(n) /\ IsObj(FirstNonAbsent(n.obj))
       /\ ~StringField(FirstNonAbsent(n.obj).obj.name)

\* C10 as stated: a listed fault raised before a result has been returned
\* makes the rule return absent without consulting the remaining nodes; a
\* fault after the first yielding node has no effect.
C10_ListedFaultIsFatal ==
    (op = "author" /\ pc = "done" /\ ~IsFault(arg) /\ Truthy(arg))
        => \A k \in 1..Len(jsonldArray) :
              /\ (/\ ListedFault(jsonldArray[k])
                  /\ \A j \in 1..(k - 1) : ~Qualifies(jsonldArray[j]))
                    => (ret = Null /\ i <= k)
              /\ (/\ Qualifies(jsonldArray[k])
                  /\ \A j \in 1..(k - 1) :
                        ~Qualifies(jsonldArray[j]) /\ ~ListedFault(jsonldArray[j]))
                    => (ret = NormalizedAuthor(jsonldArray[k]) /\ i = k)

\* C10 amended: a fault raised by a node (a null node, a throw of
\* isAuthorContentType on its @type, a throw of extractAuthorName on its
\* selected author value) before a result has been returned makes the rule
\* return absent through the catch clause without consulting the remaining
\* nodes; a node that is not an object and not null raises no fault and is
\* skipped; a fault after the first yielding node has no effect.
C10_FaultIsFatal ==
    (op = "author" /\ pc = "done" /\ ~IsFault(arg) /\ Truthy(arg))
        => \A k \in 1..Len(jsonldArray) :
              /\ (/\ RaisesFault(jsonldArray[k])
                  /\ \A j \in 1..(k - 1) :
                        ~Qualifies(jsonldArray[j]) /\ ~RaisesFault(jsonldArray[j]))
                    => (ret = Null /\ exit = "catch" /\ i = k)
              /\ (/\ Qualifies(jsonldArray[k])
                  /\ \A j \in 1..(k - 1) :
                        ~Qualifies(jsonldArray[j]) /\ ~RaisesFault(jsonldArray[j]))
                    => (ret = NormalizedAuthor(jsonldArray[k]) /\ exit = "found" /\ i = k)
              /\ (~IsObj(jsonldArray[k]) /\ ~IsNull(jsonldArray[k]))
                    => ~(exit \in {"found", "catch"} /\ i = k)

\* Reached: a null node first, an Article with an author second, and the
\* rule returned absent from the catch clause at the first node.
C10_Witness ==
    /\ op = "author" /\ pc = "done" /\ exit = "catch"
    /\ Len(jsonldArray) = 2 /\ i = 1
    /\ jsonldArray[1] = Null
    /\ Qualifies(jsonldArray[2])
    /\ ret = Null

====
